---- MODULE Spec2Model ----
(***************************************************************************)
(* Model of tar_scm.py (obs-service-tar_scm): the acquisition-and-packaging *)
(* pipeline of one or more runs against a shared repository cache, the      *)
(* _servicedata sidecar, version detection and the filtered tar assembly.   *)
(***************************************************************************)
EXTENDS Integers, Sequences, FiniteSets, TLC

(***************************************************************************)
(* Bounds                                                                   *)
(***************************************************************************)
NumRuns == 2

Runs == 1..NumRuns

(***************************************************************************)
(* State of the runs and of the cache root (tar_scm.py __main__)            *)
(***************************************************************************)
VARIABLES
  cacheEnabled,   \* CACHEDIRECTORY is set and its repo/ subdirectory exists
  treeKind,       \* what upstream holds: "plain", "dirlink", "dangling"
  repoSlot,       \* the directory repo/<key> of the cache root
  incoming,       \* incoming[r]: the directory mkdtemp made under incoming/
  tmp,            \* tmp[r]: the directory mkdtemp made under the outdir
  staged,         \* staged[r]: the tree outdir/dstname made by copytree
  pc,             \* pc[r]: position of run r in __main__
  repodir,        \* repodir[r]: where the variable repodir points
  cleanup_dirs,   \* cleanup_dirs[r]: the list registered with atexit
  failedAt,       \* failedAt[r]: the step whose fatal error ended run r
  changes,        \* changes[r]: the value of the variable changes
  completed,      \* completed[r]: the steps of __main__ that returned normally
  promotions      \* number of renames into repo/<key> that succeeded

cacheVars == <<cacheEnabled, treeKind, repoSlot, incoming, tmp, staged, pc,
               repodir, cleanup_dirs, failedAt, changes, completed, promotions>>

(***************************************************************************)
(* State of change tracking: the upstream git history, the _servicedata     *)
(* sidecar and the *.changes files of the output directory, and the         *)
(* position of the run that is handling changes.                            *)
(***************************************************************************)
VARIABLES
  commits,        \* the upstream commits, in commit-date order: [p1, p2, subj]
  head,           \* the commit HEAD of the working tree points at
  side,           \* tip of an unmerged side branch (0: none)
  servicedata,    \* the file outdir/_servicedata
  changesFiles,   \* the *.changes files of outdir: the blocks prepended to each
  cpc,            \* position of the run in the changes handling of __main__
  change,         \* the dict detect_changes returned (NoChange: None)
  sdWrites,       \* writes of _servicedata by the current run
  prepends,       \* blocks prepended to *.changes files by the current run
  startInfo,      \* what the current run found when it started
  lastOK,         \* HEAD at the end of the last successful run (0: none yet)
  runsLeft,       \* runs that may still be started
  cScm,           \* --scm
  url             \* --url, a sequence of characters

changeVars == <<commits, head, side, servicedata, changesFiles, cpc, change,
                sdWrites, prepends, startInfo, lastOK, runsLeft, cScm, url>>

(***************************************************************************)
(* State of a series of calls of detect_changes_revision and                *)
(* write_changes_revision on one sidecar                                    *)
(***************************************************************************)
VARIABLES
  initialDoc,     \* the sidecar document before the first call
  callsLeft       \* calls that may still be made

sidecarVars == <<initialDoc, callsLeft>>

(***************************************************************************)
(* State of a call of detect_version.  Texts are sequences of characters;   *)
(* "0" stands for any digit and "a" for any other harmless character.       *)
(***************************************************************************)
VARIABLES
  vScm,           \* the SCM kind
  vFormat,        \* --versionformat: characters and placeholders, or NoFormat
  vMeta,          \* what the backend prints for the placeholder
  vTag,           \* what git describe prints (NoTag: the repository has no tag)
  vVersion,       \* the value detect_version returned
  vpc             \* "call", "returned" or "raised"

versionVars == <<vScm, vFormat, vMeta, vTag, vVersion, vpc>>

(***************************************************************************)
(* State of a call of create_tar.  Names and patterns are sequences of      *)
(* characters.                                                              *)
(***************************************************************************)
VARIABLES
  tTree,          \* the names of the entries of the staged tree, topdir first
  tInclude,       \* the include patterns
  tExclude,       \* the exclude patterns
  tArchive,       \* the names of the members of the archive written
  tpc,            \* "call" or "done"
  tStat,          \* the ownership of each entry of the staged tree
  tInfo           \* the ownership written with each member of the archive

tarVars == <<tTree, tInclude, tExclude, tArchive, tpc, tStat, tInfo>>

(***************************************************************************)
(* State of a call of prep_tree_for_tar.  A path is the sequence of its     *)
(* components; a last component "" is a trailing slash.                     *)
(***************************************************************************)
VARIABLES
  pFs,            \* the paths that exist
  pBefore,        \* the paths that existed when the call was made
  pRepodir,       \* the argument repodir (the checkout)
  pSubdir,        \* the argument subdir
  pOutdir,        \* the argument outdir
  pDstname,       \* the argument dstname
  pResult         \* "call", "copied", or the error the call ended with

prepVars == <<pFs, pBefore, pRepodir, pSubdir, pOutdir, pDstname, pResult>>

(***************************************************************************)
(* State of the runs that find repo/<key> promoted and work on it           *)
(***************************************************************************)
VARIABLES
  slot,           \* the checkout under repo/<key>: [at, fetch_head]
  sRevision,      \* sRevision[r]: --revision of run r
  spc,            \* spc[r]: position of run r in __main__
  sVersion,       \* sVersion[r]: the revision run r detected its version at
  sStaged         \* sStaged[r]: the revision of the tree run r staged

slotVars == <<slot, sRevision, spc, sVersion, sStaged>>

(***************************************************************************)
(* State of the calls of get_repocache_hash                                 *)
(***************************************************************************)
VARIABLES
  hScm,           \* hScm[i]: --scm of source reference i
  hUrl,           \* hUrl[i]: --url of source reference i
  hSubdir,        \* hSubdir[i]: --subdir of source reference i
  hKey            \* hKey[i]: what get_repocache_hash returned for i, or NoKey

hashVars == <<hScm, hUrl, hSubdir, hKey>>

(***************************************************************************)
(* State of a call of switch_revision_git                                   *)
(***************************************************************************)
VARIABLES
  wRevision,      \* the argument revision, NoRevision for None
  wRefs,          \* the revisions git rev-parse --verify finds in clone_dir
  wTree,          \* the revision the working tree is at
  wResets,        \* the revisions git reset --hard has put the tree at
  wSubmodules,    \* TRUE when git submodule update has run
  wIndex,         \* position of the loop in revs
  wpc,            \* position of the call
  wResult         \* how the call ended

switchVars == <<wRevision, wRefs, wTree, wResets, wSubmodules, wIndex, wpc, wResult>>

(***************************************************************************)
(* State of a call of safe_run: the parent, the child and the pipe          *)
(***************************************************************************)
VARIABLES
  kCapacity,      \* what the pipe holds before a write blocks
  kAmount,        \* what the child has still to write
  kReturncode,    \* the exit status the child ends with
  kPipe,          \* what is in the pipe
  kChild,         \* "running" or "exited"
  kOutput,        \* what proc.stdout.read() returned
  kpc             \* position of the parent in safe_run

pipeVars == <<kCapacity, kAmount, kReturncode, kPipe, kChild, kOutput, kpc>>

\* The calls of single functions and the runs on a promoted slot.
unitVars == <<prepVars, slotVars, hashVars, switchVars, pipeVars>>

\* The main parts of the model, which those leave alone.
mainVars == <<cacheVars, changeVars, sidecarVars, versionVars, tarVars>>

vars == <<cacheVars, changeVars, sidecarVars, versionVars, tarVars, unitVars>>

\* What the pipeline runs leave alone, and what change tracking leaves alone.
nonCacheVars == <<changeVars, sidecarVars, versionVars, tarVars, unitVars>>

nonChangeVars == <<cacheVars, sidecarVars, versionVars, tarVars, unitVars>>

\* A directory holding a checkout: clone is the state of clone_dir in it,
\* origin the run whose mkdtemp created it.
NoTree == [clone |-> "absent", origin |-> 0]

Tree(c, o) == [clone |-> c, origin |-> o]

TreeKinds == {"plain", "dirlink", "dangling"}

\* sys.exit / uncaught exception: the interpreter goes on to the atexit hooks.
Fatal(r, step) ==
  /\ pc' = [pc EXCEPT ![r] = "exit"]
  /\ failedAt' = [failedAt EXCEPT ![r] = step]
  /\ UNCHANGED completed

Goto(r, p) == pc' = [pc EXCEPT ![r] = p]

\* A step of __main__ returned normally and control moves on.
Done(r, step, p) ==
  /\ pc' = [pc EXCEPT ![r] = p]
  /\ completed' = [completed EXCEPT ![r] = @ \cup {step}]
  /\ UNCHANGED failedAt

\* The directory repodir[r] points at.
DirOf(r) ==
  CASE repodir[r] = "repo" -> repoSlot
    [] repodir[r] = "incoming" -> incoming[r]
    [] repodir[r] = "tmp" -> tmp[r]
    [] OTHER -> NoTree

\* Replace the directory repodir[r] points at.
SetDir(r, t) ==
  /\ repoSlot' = IF repodir[r] = "repo" THEN t ELSE repoSlot
  /\ incoming' = IF repodir[r] = "incoming" THEN [incoming EXCEPT ![r] = t] ELSE incoming
  /\ tmp' = IF repodir[r] = "tmp" THEN [tmp EXCEPT ![r] = t] ELSE tmp

\* Variant of ConstructRepodir that clones straight into repo/<key> instead
\* of a private directory under incoming/.
ConstructRepodirInPlace(r) ==
  /\ pc[r] = "start"
  /\ IF cacheEnabled
       THEN /\ repodir' = [repodir EXCEPT ![r] = "repo"]
            /\ repoSlot' = IF repoSlot = NoTree THEN Tree("nodir", r) ELSE repoSlot
            /\ UNCHANGED <<incoming, tmp, cleanup_dirs>>
       ELSE /\ repodir' = [repodir EXCEPT ![r] = "tmp"]
            /\ tmp' = [tmp EXCEPT ![r] = Tree("nodir", r)]
            /\ cleanup_dirs' = [cleanup_dirs EXCEPT ![r] = Append(@, "tmp")]
            /\ UNCHANGED <<incoming, repoSlot>>
  /\ Goto(r, "fetch")
  /\ UNCHANGED <<cacheEnabled, treeKind, staged, failedAt, changes, completed, promotions>>
  /\ UNCHANGED nonCacheVars

\* Variant of ConstructRepodir that makes a fresh directory under incoming/
\* whether or not repo/<key> exists.
ConstructRepodirFresh(r) ==
  /\ pc[r] = "start"
  /\ IF cacheEnabled
       THEN /\ repodir' = [repodir EXCEPT ![r] = "incoming"]
            /\ incoming' = [incoming EXCEPT ![r] = Tree("nodir", r)]
            /\ UNCHANGED <<tmp, cleanup_dirs>>
       ELSE /\ repodir' = [repodir EXCEPT ![r] = "tmp"]
            /\ tmp' = [tmp EXCEPT ![r] = Tree("nodir", r)]
            /\ cleanup_dirs' = [cleanup_dirs EXCEPT ![r] = Append(@, "tmp")]
            /\ UNCHANGED incoming
  /\ Goto(r, "fetch")
  /\ UNCHANGED <<cacheEnabled, treeKind, repoSlot, staged, failedAt, changes,
                 completed, promotions>>
  /\ UNCHANGED nonCacheVars

\* __main__, construction of repodir (the parent directory of the checkout).
ConstructRepodir(r) ==
  /\ pc[r] = "start"
  /\ IF cacheEnabled
       THEN IF repoSlot # NoTree
              THEN /\ repodir' = [repodir EXCEPT ![r] = "repo"]
                   /\ UNCHANGED <<incoming, tmp, cleanup_dirs>>
              ELSE /\ repodir' = [repodir EXCEPT ![r] = "incoming"]
                   /\ incoming' = [incoming EXCEPT ![r] = Tree("nodir", r)]
                   /\ UNCHANGED <<tmp, cleanup_dirs>>
       ELSE /\ repodir' = [repodir EXCEPT ![r] = "tmp"]
            /\ tmp' = [tmp EXCEPT ![r] = Tree("nodir", r)]
            /\ cleanup_dirs' = [cleanup_dirs EXCEPT ![r] = Append(@, "tmp")]
            /\ UNCHANGED incoming
  /\ Goto(r, "fetch")
  /\ UNCHANGED <<cacheEnabled, treeKind, repoSlot, staged, failedAt, changes,
                 completed, promotions>>
  /\ UNCHANGED nonCacheVars

\* fetch_upstream, up to the start of the backend command: the isdir test on
\* clone_dir, and os.mkdir on the initial-clone path.
FetchBegin(r) ==
  /\ pc[r] = "fetch"
  /\ IF DirOf(r).clone = "nodir"
       THEN /\ SetDir(r, [DirOf(r) EXCEPT !.clone = "partial"])
            /\ Goto(r, "cloning")
       ELSE /\ UNCHANGED <<repoSlot, incoming, tmp>>
            /\ Goto(r, "updating")
  /\ UNCHANGED <<cacheEnabled, treeKind, staged, repodir, cleanup_dirs, failedAt,
                 changes, completed, promotions>>
  /\ UNCHANGED nonCacheVars

\* fetch_upstream_commands[scm]: the clone/checkout returns, or safe_run exits.
FetchEnd(r) ==
  /\ pc[r] = "cloning"
  /\ \/ /\ SetDir(r, [DirOf(r) EXCEPT !.clone = "fetched"])
        /\ Done(r, "fetch", "switch")
     \/ /\ Fatal(r, "fetch")
        /\ UNCHANGED <<repoSlot, incoming, tmp>>
  /\ UNCHANGED <<cacheEnabled, treeKind, staged, repodir, cleanup_dirs, changes, promotions>>
  /\ UNCHANGED nonCacheVars

\* update_cache_commands[scm] on a clone_dir that already exists.
UpdateCache(r) ==
  /\ pc[r] = "updating"
  /\ \/ Done(r, "fetch", "switch")
     \/ Fatal(r, "fetch")
  /\ UNCHANGED <<cacheEnabled, treeKind, repoSlot, incoming, tmp, staged, repodir,
                 cleanup_dirs, changes, promotions>>
  /\ UNCHANGED nonCacheVars

\* switch_revision_commands[scm]: the tree is at the revision, or
\* 'No such revision'.
SwitchRevision(r) ==
  /\ pc[r] = "switch"
  /\ \/ /\ SetDir(r, [DirOf(r) EXCEPT !.clone = "switched"])
        /\ Done(r, "switch", "version")
     \/ /\ Fatal(r, "switch")
        /\ UNCHANGED <<repoSlot, incoming, tmp>>
  /\ UNCHANGED <<cacheEnabled, treeKind, staged, repodir, cleanup_dirs, changes, promotions>>
  /\ UNCHANGED nonCacheVars

\* __main__: detect_version runs when version is '_auto_' or a versionformat
\* is given (any safe_run in it may exit) and is skipped otherwise.
MainDetectVersion(r) ==
  /\ pc[r] = "version"
  /\ \/ /\ Goto(r, "changes")
        /\ UNCHANGED <<failedAt, completed>>
     \/ Done(r, "version", "changes")
     \/ Fatal(r, "version")
  /\ UNCHANGED <<cacheEnabled, treeKind, repoSlot, incoming, tmp, staged, repodir,
                 cleanup_dirs, changes, promotions>>
  /\ UNCHANGED nonCacheVars

\* __main__: changes = detect_changes(...) when --changesgenerate is given:
\* a change record, None, or a fatal error; changes stays None otherwise.
MainDetectChanges(r) ==
  /\ pc[r] = "changes"
  /\ \/ /\ Goto(r, "stage")
        /\ UNCHANGED <<failedAt, completed, changes>>
     \/ /\ \E c \in {"None", "record"} : changes' = [changes EXCEPT ![r] = c]
        /\ Done(r, "changes", "stage")
     \/ /\ Fatal(r, "changes")
        /\ UNCHANGED changes
  /\ UNCHANGED <<cacheEnabled, treeKind, repoSlot, incoming, tmp, staged, repodir,
                 cleanup_dirs, promotions>>
  /\ UNCHANGED nonCacheVars

\* prep_tree_for_tar and the cleanup_dirs.append(tar_dir) after it.  The two
\* sys.exit checks copy nothing; shutil.copytree makes dst, copies what it can
\* and raises Error at the end when an entry (a dangling symlink) failed.
PrepTreeForTar(r) ==
  /\ pc[r] = "stage"
  /\ \/ /\ Fatal(r, "stage")
        /\ UNCHANGED <<staged, cleanup_dirs>>
     \/ /\ treeKind = "dangling"
        /\ staged' = [staged EXCEPT ![r] = "partial"]
        /\ Fatal(r, "stage")
        /\ UNCHANGED cleanup_dirs
     \/ /\ treeKind # "dangling"
        /\ staged' = [staged EXCEPT ![r] = "full"]
        /\ cleanup_dirs' = [cleanup_dirs EXCEPT ![r] = Append(@, "staged")]
        /\ Done(r, "stage", "tar")
  /\ UNCHANGED <<cacheEnabled, treeKind, repoSlot, incoming, tmp, repodir, changes, promotions>>
  /\ UNCHANGED nonCacheVars

\* create_tar: the archive is written, or tarfile raises.
MainCreateTar(r) ==
  /\ pc[r] = "tar"
  /\ \/ Done(r, "tar", "write")
     \/ Fatal(r, "tar")
  /\ UNCHANGED <<cacheEnabled, treeKind, repoSlot, incoming, tmp, staged, repodir,
                 cleanup_dirs, changes, promotions>>
  /\ UNCHANGED nonCacheVars

\* __main__ 'if changes:': write_changes for every *.changes file and
\* write_changes_revision, which may exit.
MainWriteChanges(r) ==
  /\ pc[r] = "write"
  /\ IF changes[r] = "record"
       THEN \/ Done(r, "write", "populate")
            \/ Fatal(r, "write")
       ELSE /\ Goto(r, "populate")
            /\ UNCHANGED <<failedAt, completed>>
  /\ UNCHANGED <<cacheEnabled, treeKind, repoSlot, incoming, tmp, staged, repodir,
                 cleanup_dirs, changes, promotions>>
  /\ UNCHANGED nonCacheVars

\* Variant of PopulateCheck that also runs before create_tar.
PopulateCheckEarly(r) ==
  /\ pc[r] \in {"populate", "tar"}
  /\ IF ~cacheEnabled
       THEN /\ Goto(r, "exit")
            /\ UNCHANGED cleanup_dirs
       ELSE IF repoSlot = NoTree
              THEN /\ Goto(r, "rename")
                   /\ UNCHANGED cleanup_dirs
              ELSE /\ Goto(r, "exit")
                   /\ cleanup_dirs' = [cleanup_dirs EXCEPT ![r] =
                        IF repodir[r] # "repo" THEN Append(@, "incoming") ELSE @]
  /\ UNCHANGED <<cacheEnabled, treeKind, repoSlot, incoming, tmp, staged, repodir,
                 failedAt, changes, completed, promotions>>
  /\ UNCHANGED nonCacheVars

\* __main__ 'Populate cache': the isdir test on repo/<key>; when it exists,
\* the samefile test and the registration of the run's own copy.
PopulateCheck(r) ==
  /\ pc[r] = "populate"
  /\ IF ~cacheEnabled
       THEN /\ Goto(r, "exit")
            /\ UNCHANGED cleanup_dirs
       ELSE IF repoSlot = NoTree
              THEN /\ Goto(r, "rename")
                   /\ UNCHANGED cleanup_dirs
              ELSE /\ Goto(r, "exit")
                   /\ cleanup_dirs' = [cleanup_dirs EXCEPT ![r] =
                        IF repodir[r] # "repo" THEN Append(@, "incoming") ELSE @]
  /\ UNCHANGED <<cacheEnabled, treeKind, repoSlot, incoming, tmp, staged, repodir,
                 failedAt, changes, completed, promotions>>
  /\ UNCHANGED nonCacheVars

\* os.rename(repodir, repodir2): moves the directory when the target is
\* absent; raises OSError (ENOTEMPTY) when the target is a populated directory.
RenameDoes(r) ==
  IF repoSlot = NoTree
    THEN /\ repoSlot' = incoming[r]
         /\ incoming' = [incoming EXCEPT ![r] = NoTree]
         /\ promotions' = promotions + 1
         /\ Goto(r, "exit")
         /\ UNCHANGED <<failedAt, completed>>
    ELSE /\ Fatal(r, "rename")
         /\ UNCHANGED <<repoSlot, incoming, promotions>>

\* __main__ 'Populate cache': the os.rename after the isdir test said no.
PopulateRename(r) ==
  /\ pc[r] = "rename"
  /\ RenameDoes(r)
  /\ UNCHANGED <<cacheEnabled, treeKind, tmp, staged, repodir, cleanup_dirs, changes>>
  /\ UNCHANGED nonCacheVars

\* os.path.exists(d) for an entry of cleanup_dirs.
DirExists(r, d) ==
  CASE d = "tmp" -> tmp[r] # NoTree
    [] d = "incoming" -> incoming[r] # NoTree
    [] d = "staged" -> staged[r] # "none"
    [] OTHER -> FALSE

\* os.walk lists a symlink to a directory among the dirs, and os.rmdir on it
\* raises OSError; a checkout holds the upstream symlinks, the copytree copy
\* (symlinks=False) holds none.
RmdirRaises(r, d) ==
  /\ treeKind = "dirlink"
  /\ \/ d = "tmp" /\ tmp[r].clone \in {"fetched", "switched"}
     \/ d = "incoming" /\ incoming[r].clone \in {"fetched", "switched"}

\* cleanup(dirs): the set of directories removed; an OSError ends the loop.
RECURSIVE cleanup(_, _)
cleanup(r, dirs) ==
  IF dirs = <<>> THEN {}
  ELSE LET d == Head(dirs) IN
       IF ~DirExists(r, d) THEN cleanup(r, Tail(dirs))
       ELSE IF RmdirRaises(r, d) THEN {}
       ELSE {d} \cup cleanup(r, Tail(dirs))

\* Process end: the atexit hook cleanup(cleanup_dirs) runs on every exit path.
AtExit(r) ==
  /\ pc[r] = "exit"
  /\ LET gone == cleanup(r, cleanup_dirs[r]) IN
       /\ tmp' = IF "tmp" \in gone THEN [tmp EXCEPT ![r] = NoTree] ELSE tmp
       /\ incoming' = IF "incoming" \in gone THEN [incoming EXCEPT ![r] = NoTree] ELSE incoming
       /\ staged' = IF "staged" \in gone THEN [staged EXCEPT ![r] = "none"] ELSE staged
  /\ Goto(r, "done")
  /\ UNCHANGED <<cacheEnabled, treeKind, repoSlot, repodir, cleanup_dirs, failedAt,
                 changes, completed, promotions>>
  /\ UNCHANGED nonCacheVars

(***************************************************************************)
(* git, as detect_changes_commands_git drives it through safe_run           *)
(***************************************************************************)
BaseLen == 9

MaxNew == 4

MaxEmpty == 1

MaxChangesFiles == 1

MaxRunsChanges == 3

MaxDocLen == 1

\* '--skip=10'
Skip == 10

\* Python's None as a revision; a commit id is its position in commits.
None == -1

\* The empty string: what git log prints when it has nothing to show, and
\* the subject of a commit made with an empty message.
Empty == 0

\* A URL without markup characters, and what --url may be: "&amp;" stands
\* for the five characters of the entity reference, "&" for an ampersand
\* that starts none.
URL == <<"u">>

Urls == {URL, <<"u", "&amp;">>, <<"u", "&">>}

Max(S) == CHOOSE x \in S : \A y \in S : y <= x

Reverse(l) == [i \in 1..Len(l) |-> l[Len(l) + 1 - i]]

\* The commits reachable from c through parent links, c included.
RECURSIVE Reach(_)
Reach(c) ==
  IF c = 0 THEN {} ELSE {c} \cup Reach(commits[c].p1) \cup Reach(commits[c].p2)

RECURSIVE SortDesc(_)
SortDesc(S) == IF S = {} THEN <<>> ELSE <<Max(S)>> \o SortDesc(S \ {Max(S)})

\* git log [--no-merges] from..tip: the commits reachable from tip and not
\* from 'from', newest commit date first.
GitLog(from, tip, noMerges) ==
  SortDesc({c \in Reach(tip) \ Reach(from) : noMerges => commits[c].p2 = 0})

\* git log -n1 --pretty=format:%H --skip=k
GitLogSkip(k) ==
  LET l == GitLog(0, head, FALSE) IN IF Len(l) > k THEN l[k + 1] ELSE Empty

RECURSIVE StripLeft(_)
StripLeft(l) == IF l # <<>> /\ Head(l) = Empty THEN StripLeft(Tail(l)) ELSE l

\* safe_run: output = proc.stdout.read().strip(), on a text given as its
\* lines: empty lines at both ends go.
Strip(l) == Reverse(StripLeft(Reverse(StripLeft(l))))

\* str.split('\n'): the lines of a text; the empty text has one empty line.
Split(l) == IF l = <<>> THEN <<Empty>> ELSE l

NoChange == [revision |-> None, url |-> "none", lines |-> <<>>]

\* Variant of detect_changes_commands_git that keeps git's newest-first order.
detect_changes_commands_git_unreversed(chg) ==
  LET last_rev == IF chg.revision = None THEN GitLogSkip(Skip) ELSE chg.revision
      current_rev == GitLogSkip(0)
  IN IF last_rev = current_rev THEN NoChange
     ELSE LET from == IF last_rev = Empty THEN head ELSE last_rev
              log == GitLog(from, current_rev, TRUE)
              lines == Strip([i \in 1..Len(log) |-> commits[log[i]].subj])
          IN [revision |-> current_rev, url |-> chg.url, lines |-> Split(lines)]

\* detect_changes_commands_git.  A range '..B' means 'HEAD..B' to git.
detect_changes_commands_git(chg) ==
  LET last_rev == IF chg.revision = None THEN GitLogSkip(Skip) ELSE chg.revision
      current_rev == GitLogSkip(0)
  IN IF last_rev = current_rev THEN NoChange
     ELSE LET from == IF last_rev = Empty THEN head ELSE last_rev
              log == GitLog(from, current_rev, TRUE)
              lines == Strip([i \in 1..Len(log) |-> commits[log[i]].subj])
          IN [revision |-> current_rev, url |-> chg.url,
              lines |-> Reverse(Split(lines))]

(***************************************************************************)
(* The _servicedata sidecar                                                 *)
(***************************************************************************)

\* A <service> element: its name attribute, the text of its url param and
\* the texts of its changesrevision params.
Service(n, u, rs) == [name |-> n, url |-> u, revs |-> rs]

\* What an XML parser makes of a text put between two tags as it is: a
\* bare ampersand is not well-formed, an entity reference is replaced by the
\* character it names.
XmlText(text) ==
  [ok |-> \A i \in 1..Len(text) : text[i] # "&",
   text |-> [i \in 1..Len(text) |-> IF text[i] = "&amp;" THEN "&" ELSE text[i]]]

\* ET.fromstring(tar_scm_xmlstring), tar_scm_xmlstring being the template
\* with the url put in by the % operator.
NewService(u) == Service("tar_scm", XmlText(u).text, <<>>)

Doc(ss) == [kind |-> "doc", services |-> ss]

Absent == [kind |-> "absent", services |-> <<>>]

EmptyFile == [kind |-> "empty", services |-> <<>>]

Corrupt == [kind |-> "corrupt", services |-> <<>>]

\* The loops over root.findall("service[@name='tar_scm']"): the inner break
\* leaves the outer loop running, so the last matching service is kept.
FindService(services, u) ==
  LET m == {i \in 1..Len(services) :
              services[i].name = "tar_scm" /\ services[i].url = u}
  IN IF m = {} THEN 0 ELSE Max(m)

\* Variant of detect_changes_revision that never reads the changesrevision
\* param of the matching service.
detect_changes_revision_unread(file, u, lxml) ==
  LET fresh == Doc(<<NewService(u)>>)
      i == FindService(file.services, u)
      wellFormed == XmlText(u).ok
  IN CASE file.kind = "absent" /\ wellFormed ->
            [ok |-> TRUE, revision |-> None, file |-> fresh, wrote |-> TRUE]
       [] file.kind = "empty" /\ lxml /\ wellFormed ->
            [ok |-> TRUE, revision |-> None, file |-> fresh, wrote |-> TRUE]
       [] file.kind = "doc" /\ i # 0 ->
            [ok |-> TRUE, revision |-> None, file |-> file, wrote |-> FALSE]
       [] file.kind = "doc" /\ i = 0 /\ wellFormed ->
            [ok |-> TRUE, revision |-> None,
             file |-> Doc(Append(file.services, NewService(u))), wrote |-> TRUE]
       [] OTHER ->
            [ok |-> FALSE, revision |-> None, file |-> file, wrote |-> FALSE]

\* detect_changes_revision(url, outdir, outdir): the revision read, the
\* file afterwards, whether it was written, and whether the call raised.
\* lxml says whether lxml.etree could be imported: only its ParseError
\* message starts with "Document is empty".  A ParseError of
\* ET.fromstring(tar_scm_xmlstring) leaves the function in every branch.
detect_changes_revision(file, u, lxml) ==
  LET fresh == Doc(<<NewService(u)>>)
      i == FindService(file.services, u)
      wellFormed == XmlText(u).ok
  IN CASE file.kind = "absent" /\ wellFormed ->
            [ok |-> TRUE, revision |-> None, file |-> fresh, wrote |-> TRUE]
       [] file.kind = "empty" /\ lxml /\ wellFormed ->
            [ok |-> TRUE, revision |-> None, file |-> fresh, wrote |-> TRUE]
       [] file.kind = "doc" /\ i # 0 ->
            [ok |-> TRUE,
             revision |-> IF Len(file.services[i].revs) = 1
                            THEN file.services[i].revs[1] ELSE None,
             file |-> file, wrote |-> FALSE]
       [] file.kind = "doc" /\ i = 0 /\ wellFormed ->
            [ok |-> TRUE, revision |-> None,
             file |-> Doc(Append(file.services, NewService(u))), wrote |-> TRUE]
       [] OTHER ->
            [ok |-> FALSE, revision |-> None, file |-> file, wrote |-> FALSE]

\* write_changes_revision(url, outdir, revision).
write_changes_revision(file, u, revision) ==
  LET i == FindService(file.services, u)
      svc == file.services[i]
  IN IF file.kind # "doc" \/ i = 0
       THEN [ok |-> FALSE, file |-> file, wrote |-> FALSE]
       ELSE IF Len(svc.revs) = 1
              THEN IF svc.revs[1] # revision
                     THEN [ok |-> TRUE, wrote |-> TRUE,
                           file |-> Doc([file.services EXCEPT ![i].revs = <<revision>>])]
                     ELSE [ok |-> TRUE, wrote |-> FALSE, file |-> file]
              ELSE [ok |-> TRUE, wrote |-> TRUE,
                    file |-> Doc([file.services EXCEPT ![i].revs = Append(@, revision)])]

\* write_changes(filename, changes, version, author): a block with the
\* lines goes in front of the old content.
write_changes(content, lines) == <<lines>> \o content

NoStart == [prevOK |-> 0, stored |-> None]

\* Upstream gets a commit on its main line; the working tree is fetched and
\* reset to it (fetch_upstream) before the changes are looked at.
UpstreamCommit ==
  /\ cpc = "idle"
  /\ Len(commits) < BaseLen + MaxNew
  /\ \E e \in BOOLEAN :
       /\ e => Cardinality({c \in 1..Len(commits) : commits[c].subj = Empty}) < MaxEmpty
       /\ commits' = Append(commits, [p1 |-> head, p2 |-> 0,
                              subj |-> IF e THEN Empty ELSE Len(commits) + 1])
  /\ head' = Len(commits) + 1
  /\ UNCHANGED <<side, servicedata, changesFiles, cpc, change, sdWrites, prepends,
                 startInfo, lastOK, runsLeft, cScm, url>>
  /\ UNCHANGED nonChangeVars

\* Upstream gets a commit on a side branch, which forks off HEAD's parent.
UpstreamSideCommit ==
  /\ cpc = "idle"
  /\ Len(commits) < BaseLen + MaxNew
  /\ commits[head].p1 # 0
  /\ commits' = Append(commits, [p1 |-> IF side # 0 THEN side ELSE commits[head].p1,
                                 p2 |-> 0, subj |-> Len(commits) + 1])
  /\ side' = Len(commits) + 1
  /\ UNCHANGED <<head, servicedata, changesFiles, cpc, change, sdWrites, prepends,
                 startInfo, lastOK, runsLeft, cScm, url>>
  /\ UNCHANGED nonChangeVars

\* Upstream merges the side branch into its main line.
UpstreamMerge ==
  /\ cpc = "idle"
  /\ Len(commits) < BaseLen + MaxNew
  /\ side # 0
  /\ commits' = Append(commits, [p1 |-> head, p2 |-> side, subj |-> Len(commits) + 1])
  /\ head' = Len(commits) + 1
  /\ side' = 0
  /\ UNCHANGED <<servicedata, changesFiles, cpc, change, sdWrites, prepends,
                 startInfo, lastOK, runsLeft, cScm, url>>
  /\ UNCHANGED nonChangeVars

\* detect_changes(scm, url, clone_dir, outdir) of a run with
\* --changesgenerate: detect_changes_revision, whose exception is a sys.exit,
\* then detect_changes_commands[scm](repodir, changes); the dict has the one
\* key 'git', any other kind raises KeyError.
detect_changes ==
  /\ cpc = "idle"
  /\ runsLeft > 0
  /\ runsLeft' = runsLeft - 1
  /\ \E lxml \in BOOLEAN :
       LET d == detect_changes_revision(servicedata, url, lxml) IN
       IF d.ok
         THEN /\ servicedata' = d.file
              /\ sdWrites' = IF d.wrote THEN 1 ELSE 0
              /\ startInfo' = [prevOK |-> lastOK, stored |-> d.revision]
              /\ IF cScm = "git"
                   THEN /\ change' = detect_changes_commands_git([revision |-> d.revision,
                                                                  url |-> url])
                        /\ cpc' = "detected"
                   ELSE /\ cpc' = "KeyError"
                        /\ UNCHANGED change
         ELSE /\ cpc' = "Failed to parse"
              /\ UNCHANGED <<servicedata, sdWrites, change, startInfo>>
  /\ UNCHANGED <<commits, head, side, changesFiles, prepends, lastOK, cScm, url>>
  /\ UNCHANGED nonChangeVars

\* prep_tree_for_tar or create_tar ends the run with a fatal error.
PackagingFails ==
  /\ cpc = "detected"
  /\ cpc' = "failed"
  /\ UNCHANGED <<commits, head, side, servicedata, changesFiles, change, sdWrites,
                 prepends, startInfo, lastOK, runsLeft, cScm, url>>
  /\ UNCHANGED nonChangeVars

\* __main__ 'if changes:' after packaging: write_changes for every *.changes
\* file of outdir, then write_changes_revision; then the run ends normally.
MainWriteRevision ==
  /\ cpc = "detected"
  /\ IF change # NoChange
       THEN LET w == write_changes_revision(servicedata, change.url, change.revision) IN
            /\ changesFiles' = [f \in DOMAIN changesFiles |->
                                  write_changes(changesFiles[f], change.lines)]
            /\ prepends' = prepends + Len(changesFiles)
            /\ servicedata' = w.file
            /\ sdWrites' = sdWrites + (IF w.wrote THEN 1 ELSE 0)
            /\ cpc' = IF w.ok THEN "finished" ELSE "missing tar_scm with URL"
            /\ lastOK' = IF w.ok THEN head ELSE lastOK
       ELSE /\ cpc' = "finished"
            /\ lastOK' = head
            /\ UNCHANGED <<changesFiles, prepends, servicedata, sdWrites>>
  /\ UNCHANGED <<commits, head, side, change, startInfo, runsLeft, cScm, url>>
  /\ UNCHANGED nonChangeVars

\* How a run ends: normally, or with the fatal error of packaging, of
\* detect_changes_revision, of the dispatch on the SCM kind, or of
\* write_changes_revision.
Endings == {"finished", "failed", "Failed to parse", "KeyError", "missing tar_scm with URL"}

\* The process of the run has ended; the next run starts from scratch.
RunEnd ==
  /\ cpc \in Endings
  /\ cpc' = "idle"
  /\ change' = NoChange
  /\ sdWrites' = 0
  /\ prepends' = 0
  /\ startInfo' = NoStart
  /\ UNCHANGED <<commits, head, side, servicedata, changesFiles, lastOK, runsLeft, cScm, url>>
  /\ UNCHANGED nonChangeVars

\* The service entries the sidecars of the change-tracking runs start from.
ChangeServices ==
  { Service("tar_scm", url, <<>>), Service("tar_scm", url, <<1>>),
    Service("tar_scm", url, <<BaseLen>>), Service("tar_scm", <<"v">>, <<1>>),
    Service("other", url, <<>>) }

Docs(services, n) ==
  UNION {[1..k -> services] : k \in 0..n}

\* Upstream starts as a linear history of BaseLen commits, the third of
\* which may have been made with an empty message.
InitHistory ==
  /\ \E e \in {0, 3} :
       commits = [c \in 1..BaseLen |->
                    [p1 |-> c - 1, p2 |-> 0, subj |-> IF c = e THEN Empty ELSE c]]
  /\ head = BaseLen
  /\ side = 0

\* The history where it plays no part.
NoHistory ==
  /\ commits = <<>>
  /\ head = 0
  /\ side = 0

IdleRun ==
  /\ changesFiles \in {[f \in 1..n |-> <<>>] : n \in 0..MaxChangesFiles}
  /\ cpc = "idle"
  /\ change = NoChange
  /\ sdWrites = 0
  /\ prepends = 0
  /\ startInfo = NoStart
  /\ lastOK = 0

InitChanges ==
  /\ InitHistory
  /\ cScm \in {"git", "svn", "hg", "bzr"}
  /\ url \in (IF cScm = "git" THEN Urls ELSE {URL})
  /\ servicedata \in {Absent, EmptyFile, Corrupt}
                       \cup {Doc(ss) : ss \in Docs(ChangeServices, MaxDocLen)}
  /\ IdleRun
  /\ runsLeft = MaxRunsChanges

NextChanges ==
  \/ UpstreamCommit
  \/ UpstreamSideCommit
  \/ UpstreamMerge
  \/ detect_changes
  \/ PackagingFails
  \/ MainWriteRevision
  \/ RunEnd

\* No change tracking going on.
NoChanges ==
  /\ NoHistory
  /\ cScm = "git"
  /\ url = URL
  /\ servicedata = Absent
  /\ changesFiles = <<>>
  /\ cpc = "idle"
  /\ change = NoChange
  /\ sdWrites = 0
  /\ prepends = 0
  /\ startInfo = NoStart
  /\ lastOK = 0
  /\ runsLeft = 0

MaxSidecarLen == 3

MaxCalls == 3

\* The service entries of the sidecars the calls are made on.
SidecarServices ==
  { Service(n, u, rs) : n \in {"tar_scm", "other"}, u \in {url, <<"v">>},
                        rs \in {<<>>, <<1>>} }

\* A call detect_changes_revision(url, outdir, outdir); when it raises the
\* file is as before.
CallDetectChangesRevision ==
  /\ callsLeft > 0
  /\ callsLeft' = callsLeft - 1
  /\ \E lxml \in BOOLEAN :
       servicedata' = detect_changes_revision(servicedata, url, lxml).file
  /\ UNCHANGED <<commits, head, side, changesFiles, cpc, change, sdWrites, prepends,
                 startInfo, lastOK, runsLeft, cScm, url, initialDoc, cacheVars, versionVars, tarVars,
                 unitVars>>

\* A call write_changes_revision(url, outdir, revision); when it exits the
\* file is as before.
CallWriteChangesRevision ==
  /\ callsLeft > 0
  /\ callsLeft' = callsLeft - 1
  /\ \E revision \in 1..2 :
       servicedata' = write_changes_revision(servicedata, url, revision).file
  /\ UNCHANGED <<commits, head, side, changesFiles, cpc, change, sdWrites, prepends,
                 startInfo, lastOK, runsLeft, cScm, url, initialDoc, cacheVars, versionVars, tarVars,
                 unitVars>>

InitSidecar ==
  /\ NoHistory
  /\ cScm = "git"
  /\ url \in Urls
  /\ servicedata \in {Doc(ss) : ss \in Docs(SidecarServices, MaxSidecarLen)}
  /\ initialDoc = servicedata
  /\ callsLeft = MaxCalls
  /\ changesFiles = <<>>
  /\ cpc = "idle"
  /\ change = NoChange
  /\ sdWrites = 0
  /\ prepends = 0
  /\ startInfo = NoStart
  /\ lastOK = 0
  /\ runsLeft = 0

\* No series of calls going on.
NoCalls ==
  /\ initialDoc = Absent
  /\ callsLeft = 0

(***************************************************************************)
(* Version detection                                                        *)
(***************************************************************************)
MaxFormatLen == 2

Chars == {"0", "a", "-", ":", " ", "+"}

\* "P" is the placeholder of the backend (%ct, %r, {rev}, ...), "T" the
\* token @PARENT_TAG@.
FormatTokens == Chars \cup {"P", "T"}

NoFormat == <<"None">>

NoTag == <<"None">>

IsDigits(s, i, n) == i + n - 1 <= Len(s) /\ \A k \in i..(i + n - 1) : s[k] = "0"

CharAt(s, i, c) == i <= Len(s) /\ s[i] = c

\* ' +': the spaces from position i on.
RECURSIVE Spaces(_, _)
Spaces(s, i) == IF i <= Len(s) /\ s[i] = " " THEN 1 + Spaces(s, i + 1) ELSE 0

\* A match of the date pattern of version_iso_cleanup at position i:
\* ([0-9]{4})-([0-9]{2})-([0-9]{2}) +([0-9]{2})([:]([0-9]{2})([:]([0-9]{2}))?)?( +[-+][0-9]{3,4})
\* groups: whether groups 6 and 8 took part; hour: where group 4 starts;
\* last: the last position matched.
IsoMatch(s, i) ==
  LET n1 == Spaces(s, i + 10)
      h == i + 10 + n1
      hasMin == CharAt(s, h + 2, ":") /\ IsDigits(s, h + 3, 2)
      hasSec == hasMin /\ CharAt(s, h + 5, ":") /\ IsDigits(s, h + 6, 2)
      z == h + 2 + (IF hasSec THEN 6 ELSE IF hasMin THEN 3 ELSE 0)
      n2 == Spaces(s, z)
      sg == z + n2
      tz == IF IsDigits(s, sg + 1, 4) THEN 4 ELSE 3
  IN [matched |-> /\ IsDigits(s, i, 4) /\ CharAt(s, i + 4, "-")
                  /\ IsDigits(s, i + 5, 2) /\ CharAt(s, i + 7, "-")
                  /\ IsDigits(s, i + 8, 2)
                  /\ n1 >= 1 /\ IsDigits(s, h, 2)
                  /\ n2 >= 1 /\ (CharAt(s, sg, "-") \/ CharAt(s, sg, "+"))
                  /\ IsDigits(s, sg + 1, 3),
      groups |-> hasSec,
      hour |-> h,
      last |-> sg + tz]

\* The expansion of the template \1\2\3T\4\6\8 for a match at i.
IsoRepl(s, i, h) ==
  SubSeq(s, i, i + 3) \o SubSeq(s, i + 5, i + 6) \o SubSeq(s, i + 8, i + 9)
  \o <<"T">> \o SubSeq(s, h, h + 1) \o SubSeq(s, h + 3, h + 4) \o SubSeq(s, h + 6, h + 7)

\* re.sub of the date pattern from position i on.  Python 2 raises
\* 'unmatched group' when the template names a group that took no part.
RECURSIVE IsoSub(_, _)
IsoSub(s, i) ==
  IF i > Len(s) THEN [ok |-> TRUE, text |-> <<>>]
  ELSE LET m == IsoMatch(s, i) IN
       IF m.matched
         THEN IF ~m.groups THEN [ok |-> FALSE, text |-> <<>>]
              ELSE LET rest == IsoSub(s, m.last + 1)
                   IN [ok |-> rest.ok, text |-> IsoRepl(s, i, m.hour) \o rest.text]
         ELSE LET rest == IsoSub(s, i + 1)
              IN [ok |-> rest.ok, text |-> <<s[i]>> \o rest.text]

\* version_iso_cleanup: the date rewrite, then re.sub(r'[-:]', '', version).
version_iso_cleanup(version) ==
  LET d == IsoSub(version, 1)
  IN [ok |-> d.ok, text |-> SelectSeq(d.text, LAMBDA c : c \notin {"-", ":"})]

\* The text a format renders to: every token t is replaced by what with[t]
\* says, every other token stands for itself (git log --pretty=format:,
\* hg log --template, re.sub('%r', ...)).
RECURSIVE Render(_, _)
Render(format, with) ==
  IF format = <<>> THEN <<>>
  ELSE (IF Head(format) \in DOMAIN with THEN with[Head(format)] ELSE <<Head(format)>>)
       \o Render(Tail(format), with)

RECURSIVE LStrip(_)
LStrip(s) == IF s # <<>> /\ Head(s) = " " THEN LStrip(Tail(s)) ELSE s

\* safe_run: output = proc.stdout.read().strip()
StripText(s) == Reverse(LStrip(Reverse(LStrip(s))))

Returned(text) == [ok |-> TRUE, text |-> text]

Raised == [ok |-> FALSE, text |-> <<>>]

\* detect_version_git: @PARENT_TAG@ is replaced by the output of git
\* describe (sys.exit when there is no tag), git log renders the format.
detect_version_git(format, meta, tag) ==
  LET versionformat == IF format = NoFormat THEN <<"P">> ELSE format
      hasTag == \E i \in 1..Len(versionformat) : versionformat[i] = "T"
  IN IF hasTag /\ tag = NoTag THEN Raised
     ELSE LET expanded == IF hasTag THEN Render(versionformat, [t \in {"T"} |-> StripText(tag)])
                                    ELSE versionformat
          IN version_iso_cleanup(StripText(Render(expanded, [t \in {"P"} |-> meta])))

\* detect_version_svn: re.sub('%r', version, versionformat), version being
\* the stripped 'Last Changed Rev' of svn info.
detect_version_svn(format, meta) ==
  LET versionformat == IF format = NoFormat THEN <<"P">> ELSE format
  IN Returned(Render(versionformat, [t \in {"P"} |-> StripText(meta)]))

\* detect_version_hg: hg log --template renders the format.
detect_version_hg(format, meta) ==
  LET versionformat == IF format = NoFormat THEN <<"P">> ELSE format
  IN version_iso_cleanup(StripText(Render(versionformat, [t \in {"P"} |-> meta])))

\* detect_version_bzr: re.sub('%r', version, versionformat), version being
\* the output of bzr revno.
detect_version_bzr(format, meta) ==
  LET versionformat == IF format = NoFormat THEN <<"P">> ELSE format
  IN Returned(Render(versionformat, [t \in {"P"} |-> StripText(meta)]))

\* detect_version: the dispatch on the SCM kind.
detect_version(scm, format, meta, tag) ==
  CASE scm = "git" -> detect_version_git(format, meta, tag)
    [] scm = "svn" -> detect_version_svn(format, meta)
    [] scm = "hg" -> detect_version_hg(format, meta)
    [] scm = "bzr" -> detect_version_bzr(format, meta)

\* A call detect_version(scm, clone_dir, versionformat).
DetectVersion ==
  /\ vpc = "call"
  /\ LET v == detect_version(vScm, vFormat, vMeta, vTag)
     IN /\ vVersion' = v.text
        /\ vpc' = IF v.ok THEN "returned" ELSE "raised"
  /\ UNCHANGED <<vScm, vFormat, vMeta, vTag, cacheVars, changeVars, sidecarVars, tarVars,
                 unitVars>>

IsoDate(minutes, seconds, zone) ==
  <<"0", "0", "0", "0", "-", "0", "0", "-", "0", "0", " ", "0", "0">>
  \o (IF minutes THEN <<":", "0", "0">> ELSE <<>>)
  \o (IF seconds THEN <<":", "0", "0">> ELSE <<>>)
  \o zone

\* What a backend may print for the placeholder.
Metadata ==
  { <<"0", "0">>, <<"a">>, <<"0", "-", "a">>, <<" ", ":">>,
    IsoDate(TRUE, TRUE, <<" ", "+", "0", "0", "0", "0">>),
    IsoDate(TRUE, TRUE, <<" ", " ", "-", "0", "0", "0">>),
    IsoDate(TRUE, FALSE, <<" ", "+", "0", "0", "0", "0">>),
    IsoDate(TRUE, TRUE, <<>>) }

Formats == {NoFormat} \cup UNION {[1..k -> FormatTokens] : k \in 1..MaxFormatLen}

InitVersion ==
  /\ vScm \in {"git", "svn", "hg", "bzr"}
  /\ vFormat \in Formats
  /\ vMeta \in Metadata
  /\ vTag \in {NoTag, <<"a", "-", "0">>}
  /\ vVersion = <<>>
  /\ vpc = "call"

\* No call of detect_version going on.
NoVersion ==
  /\ vScm = "git"
  /\ vFormat = NoFormat
  /\ vMeta = <<>>
  /\ vTag = NoTag
  /\ vVersion = <<>>
  /\ vpc = "returned"

(***************************************************************************)
(* The tar assembly                                                         *)
(***************************************************************************)
MaxPatterns == 1

Lit(c) == [t |-> "lit", c |-> c]

Dot == [t |-> "dot", c |-> ""]

DotStar == [t |-> "dotstar", c |-> ""]

\* fnmatch.translate: '*' becomes '.*', '?' becomes '.', any other character
\* stands for itself; the pattern ends with \Z.
fnmatch_translate(pat) ==
  [toks |-> [i \in 1..Len(pat) |->
               IF pat[i] = "*" THEN DotStar
               ELSE IF pat[i] = "?" THEN Dot ELSE Lit(pat[i])],
   end |-> TRUE]

\* r".*/\.bzr.*" and its three siblings: no \Z.
VcsPattern(name) ==
  [toks |-> <<DotStar, Lit("/")>> \o [i \in 1..Len(name) |-> Lit(name[i])] \o <<DotStar>>,
   end |-> FALSE]

VcsNames ==
  << <<".", "b", "z", "r">>, <<".", "g", "i", "t">>, <<".", "h", "g">>,
     <<".", "s", "v", "n">> >>

\* Whether the tokens match s from its start, up to its end when end.
RECURSIVE Matches(_, _, _)
Matches(toks, s, end) ==
  IF toks = <<>> THEN (end => s = <<>>)
  ELSE CASE Head(toks).t = "dotstar" ->
              \/ Matches(Tail(toks), s, end)
              \/ s # <<>> /\ Matches(toks, Tail(s), end)
         [] Head(toks).t = "dot" ->
              s # <<>> /\ Matches(Tail(toks), Tail(s), end)
         [] OTHER ->
              s # <<>> /\ Head(s) = Head(toks).c /\ Matches(Tail(toks), Tail(s), end)

\* p.match(name) of a compiled pattern.
re_match(p, name) == Matches(p.toks, name, p.end)

\* tar_filter(tarinfo): whether the entry is kept.
tar_filter(name, include, exclude) ==
  LET incl_patterns == [i \in 1..Len(include) |-> fnmatch_translate(include[i])]
      excl_patterns == [i \in 1..Len(VcsNames) |-> VcsPattern(VcsNames[i])]
                       \o [i \in 1..Len(exclude) |-> fnmatch_translate(exclude[i])]
  IN IF incl_patterns # <<>>
       THEN \E i \in 1..Len(incl_patterns) : re_match(incl_patterns[i], name)
       ELSE ~\E i \in 1..Len(excl_patterns) : re_match(excl_patterns[i], name)

\* The directory an entry is listed in.
Parent(name) ==
  LET slashes == {i \in 1..Len(name) : name[i] = "/"}
  IN IF slashes = {} THEN <<>> ELSE SubSeq(name, 1, Max(slashes) - 1)

\* tar.add(name, filter=tar_filter): an entry the filter drops is left out
\* together with everything below it; a kept directory is walked.
RECURSIVE TarAdd(_, _, _, _)
TarAdd(name, tree, include, exclude) ==
  IF ~tar_filter(name, include, exclude) THEN {}
  ELSE {name} \cup UNION {TarAdd(c, tree, include, exclude) :
                            c \in {e \in tree : Parent(e) = name}}

\* Variant of tar_filter_owner that hands the tarinfo back as gettarinfo
\* made it.
tar_filter_owner_kept(tarinfo) == tarinfo

\* tar_filter(tarinfo): the ownership of the tarinfo it hands back, set
\* before any pattern is looked at.
tar_filter_owner(tarinfo) ==
  [tarinfo EXCEPT !.uid = 0, !.gid = 0, !.uname = "root", !.gname = "root"]

\* create_tar(tar_dir, outdir, dstname, extension, exclude, include): every
\* member is written with the tarinfo the filter handed back.
create_tar ==
  /\ tpc = "call"
  /\ tArchive' = TarAdd(<<"p">>, tTree, tInclude, tExclude)
  /\ tInfo' = [n \in TarAdd(<<"p">>, tTree, tInclude, tExclude) |->
                tar_filter_owner(tStat[n])]
  /\ tpc' = "done"
  /\ UNCHANGED <<tTree, tInclude, tExclude, tStat, cacheVars, changeVars, sidecarVars, versionVars,
                 unitVars>>

\* The staged trees: topdir p, with any of readme.txt (r.t), build.o (b.o),
\* a subdirectory s with or without a readme.txt, and the four kinds of
\* version-control directory with a file in each.
TopDir == <<"p">>

Under(dir, name) == dir \o <<"/">> \o name

StagedTrees ==
  { {TopDir} \cup files \cup sub \cup UNION {{Under(TopDir, VcsNames[i]),
                                             Under(Under(TopDir, VcsNames[i]), <<"c">>)} : i \in vcs} :
      files \in SUBSET {Under(TopDir, <<"r", ".", "t">>), Under(TopDir, <<"b", ".", "o">>)},
      sub \in { {}, {Under(TopDir, <<"s">>)},
                {Under(TopDir, <<"s">>), Under(Under(TopDir, <<"s">>), <<"r", ".", "t">>)} },
      vcs \in SUBSET (1..Len(VcsNames)) }

\* The glob patterns given with --include and --exclude.
Patterns ==
  { <<"*", ".", "t">>, <<"*">>, <<"p">>, <<"*", ".", "o">>, <<"p", "/", "s", "*">>,
    <<"p", "/", "?", ".", "?">> }

PatternLists == UNION {[1..k -> Patterns] : k \in 0..MaxPatterns}

\* TarInfo.uid, gid, uname and gname as gettarinfo reads them from a file.
Owner(uid, gid, uname, gname) == [uid |-> uid, gid |-> gid, uname |-> uname, gname |-> gname]

RootOwner == Owner(0, 0, "root", "root")

\* The staged files belong to root, to a user, or the top directory to a
\* user and what it holds to root with the user's group.
Ownerships(tree) ==
  { [n \in tree |-> RootOwner],
    [n \in tree |-> Owner(1000, 100, "abuild", "users")],
    [n \in tree |-> IF n = TopDir THEN Owner(1000, 100, "abuild", "users")
                                  ELSE Owner(0, 100, "root", "users")] }

InitTar ==
  /\ tTree \in StagedTrees
  /\ tInclude \in PatternLists
  /\ tExclude \in PatternLists
  /\ tStat \in Ownerships(tTree)
  /\ tInfo = <<>>
  /\ tArchive = {}
  /\ tpc = "call"

\* No call of create_tar going on.
NoTar ==
  /\ tTree = {}
  /\ tStat = <<>>
  /\ tInfo = <<>>
  /\ tInclude = <<>>
  /\ tExclude = <<>>
  /\ tArchive = {}
  /\ tpc = "done"

(***************************************************************************)
(* Staging: prep_tree_for_tar                                               *)
(***************************************************************************)

\* os.path.join(a, b) for a relative b: one slash between the two.
Join(a, b) == (IF a[Len(a)] = "" THEN SubSeq(a, 1, Len(a) - 1) ELSE a) \o b

\* os.path.dirname(p): what stands before the last slash.
Dirname(p) == SubSeq(p, 1, Len(p) - 1)

\* The directory entry a path string leads to: slashes at the end and
\* doubled slashes play no part.
Resolve(p) == SelectSeq(p, LAMBDA c : c # "")

\* os.path.exists(p)
Exists(fs, p) == Resolve(p) \in fs

\* os.path.samefile(a, b) for two paths that exist.
Samefile(a, b) == Resolve(a) = Resolve(b)

\* The entries below directory d.
Below(fs, d) == {e \in fs : Len(e) > Len(d) /\ SubSeq(e, 1, Len(d)) = d}

\* shutil.copytree(src, dst): os.listdir(src), then os.makedirs(dst), which
\* raises OSError when dst exists, then the copy of every entry listed.
copytree(fs, src, dst) ==
  LET s == Resolve(src)
      d == Resolve(dst)
  IN IF d \in fs
       THEN [result |-> "OSError", fs |-> fs]
       ELSE [result |-> "copied",
             fs |-> fs \cup {d} \cup {d \o SubSeq(e, Len(s) + 1, Len(e)) : e \in Below(fs, s)}]

\* prep_tree_for_tar(repodir, subdir, outdir, dstname): how the call ends
\* and what exists afterwards.
prep_tree_for_tar(fs, dir, subdir, outdir, dstname) ==
  LET src == Join(dir, subdir)
      dst == Join(outdir, dstname)
  IN IF ~Exists(fs, src) THEN [result |-> "No such file or directory", fs |-> fs]
     ELSE IF Exists(fs, dst) /\ (Samefile(src, dst) \/ Samefile(Dirname(src), dst))
       THEN [result |-> "src and dst refer to same file", fs |-> fs]
     ELSE copytree(fs, src, dst)

\* A call prep_tree_for_tar(clone_dir, args.subdir, args.outdir, dstname).
CallPrepTreeForTar ==
  /\ pResult = "call"
  /\ LET r == prep_tree_for_tar(pFs, pRepodir, pSubdir, pOutdir, pDstname)
     IN /\ pFs' = r.fs
        /\ pResult' = r.result
  /\ UNCHANGED <<pBefore, pRepodir, pSubdir, pOutdir, pDstname>>
  /\ UNCHANGED <<mainVars, slotVars, hashVars, switchVars, pipeVars>>

\* The checkout c lies in the directory t that mkdtemp made in the output
\* directory w (or that is the cache slot); it holds a file f and may hold a
\* directory s with a file g; the output directory may hold a directory o.
Checkout == <<"w", "t", "c">>

PrepTrees ==
  { {<<"w">>, <<"w", "t">>, Checkout, Checkout \o <<"f">>} \cup sub \cup other :
      sub \in { {}, {Checkout \o <<"s">>, Checkout \o <<"s", "g">>} },
      other \in { {}, {<<"w", "o">>} } }

\* --subdir: '' (the default), 's', 's/' and a name the checkout lacks.
Subdirs == { <<"">>, <<"s">>, <<"s", "">>, <<"x">> }

InitPrep ==
  /\ pFs \in PrepTrees
  /\ pBefore = pFs
  /\ pRepodir = Checkout
  /\ pSubdir \in Subdirs
  /\ pOutdir \in { <<"w">>, <<"w", "t">>, Checkout }
  /\ pDstname \in { <<"n">>, <<"o">>, <<"t">>, <<"c">>, <<"s">> }
  /\ pResult = "call"

\* No call of prep_tree_for_tar going on.
NoPrep ==
  /\ pFs = {}
  /\ pBefore = {}
  /\ pRepodir = <<>>
  /\ pSubdir = <<>>
  /\ pOutdir = <<>>
  /\ pDstname = <<>>
  /\ pResult = "copied"

(***************************************************************************)
(* Runs on a promoted slot: fetch_upstream finds clone_dir under            *)
(* repo/<key>, updates it and switches it in place; detect_version and      *)
(* prep_tree_for_tar then read it                                           *)
(***************************************************************************)
NumSharers == 2

NumRevisions == 2

Sharers == 1..NumSharers

\* The revisions upstream has.
Revisions == 1..NumRevisions

\* update_cache_git on the promoted checkout: git fetch writes the objects
\* and FETCH_HEAD under repo/<key>/<basename>/.git; or safe_run exits.
SlotUpdateCache(r) ==
  /\ spc[r] = "fetch"
  /\ \/ /\ slot' = [slot EXCEPT !.fetch_head = r]
        /\ spc' = [spc EXCEPT ![r] = "switch"]
     \/ /\ spc' = [spc EXCEPT ![r] = "failed"]
        /\ UNCHANGED slot
  /\ UNCHANGED <<sRevision, sVersion, sStaged>>
  /\ UNCHANGED <<mainVars, prepVars, hashVars, switchVars, pipeVars>>

\* switch_revision_git on the promoted checkout: git reset --hard puts the
\* working tree at the revision of the run and the submodules follow; or
\* the submodule update exits after the reset; or 'No such revision'.
SlotSwitchRevision(r) ==
  /\ spc[r] = "switch"
  /\ \/ /\ slot' = [slot EXCEPT !.at = sRevision[r]]
        /\ spc' = [spc EXCEPT ![r] = "version"]
     \/ /\ slot' = [slot EXCEPT !.at = sRevision[r]]
        /\ spc' = [spc EXCEPT ![r] = "failed"]
     \/ /\ spc' = [spc EXCEPT ![r] = "failed"]
        /\ UNCHANGED slot
  /\ UNCHANGED <<sRevision, sVersion, sStaged>>
  /\ UNCHANGED <<mainVars, prepVars, hashVars, switchVars, pipeVars>>

\* detect_version(args.scm, clone_dir, args.versionformat): the version is
\* read from the checkout as it is now.
SlotDetectVersion(r) ==
  /\ spc[r] = "version"
  /\ sVersion' = [sVersion EXCEPT ![r] = slot.at]
  /\ spc' = [spc EXCEPT ![r] = "stage"]
  /\ UNCHANGED <<slot, sRevision, sStaged>>
  /\ UNCHANGED <<mainVars, prepVars, hashVars, switchVars, pipeVars>>

\* prep_tree_for_tar(clone_dir, ...): the copy is taken from the checkout as
\* it is now.
SlotPrepTree(r) ==
  /\ spc[r] = "stage"
  /\ sStaged' = [sStaged EXCEPT ![r] = slot.at]
  /\ spc' = [spc EXCEPT ![r] = "staged"]
  /\ UNCHANGED <<slot, sRevision, sVersion>>
  /\ UNCHANGED <<mainVars, prepVars, hashVars, switchVars, pipeVars>>

\* repo/<key> holds a checkout that some earlier run promoted, at one of the
\* revisions; each run asks for a revision of its own.
InitSlot ==
  /\ slot \in [at : Revisions, fetch_head : {0}]
  /\ sRevision \in [Sharers -> Revisions]
  /\ spc = [r \in Sharers |-> "fetch"]
  /\ sVersion = [r \in Sharers |-> 0]
  /\ sStaged = [r \in Sharers |-> 0]

NextSlot ==
  \E r \in Sharers :
    \/ SlotUpdateCache(r)
    \/ SlotSwitchRevision(r)
    \/ SlotDetectVersion(r)
    \/ SlotPrepTree(r)

\* No run on a promoted slot going on.
NoSlot ==
  /\ slot = [at |-> 1, fetch_head |-> 0]
  /\ sRevision = [r \in Sharers |-> 1]
  /\ spc = [r \in Sharers |-> "staged"]
  /\ sVersion = [r \in Sharers |-> 0]
  /\ sStaged = [r \in Sharers |-> 0]

(***************************************************************************)
(* get_repocache_hash: the key of a source reference                        *)
(***************************************************************************)
\* hashlib.sha256: the digest stands for the message itself, which makes
\* it injective; update() appends to the message.
sha256(message) == [hexdigest |-> message]

get_repocache_hash(kind, u, subdir) ==
  sha256(u \o (IF kind = "svn" THEN <<"/">> \o subdir ELSE <<>>)).hexdigest

NoKey == <<>>

References == 1..2

HashScms == {"svn", "git"}

\* Values of --url and --subdir, as sequences of characters.
HashUrls == {<<"a">>, <<"a", "/", "b">>, <<"b">>}

HashSubdirs == {<<>>, <<"c">>, <<"b", "/", "c">>}

CallGetRepocacheHash(i) ==
  /\ hKey[i] = NoKey
  /\ hKey' = [hKey EXCEPT ![i] = get_repocache_hash(hScm[i], hUrl[i], hSubdir[i])]
  /\ UNCHANGED <<hScm, hUrl, hSubdir>>
  /\ UNCHANGED <<mainVars, prepVars, slotVars, switchVars, pipeVars>>

InitHash ==
  /\ hScm \in [References -> HashScms]
  /\ hUrl \in [References -> HashUrls]
  /\ hSubdir \in [References -> HashSubdirs]
  /\ hKey = [i \in References |-> NoKey]

\* No call of get_repocache_hash going on.
NoHash ==
  /\ hScm = [i \in References |-> "git"]
  /\ hUrl = [i \in References |-> <<"a">>]
  /\ hSubdir = [i \in References |-> <<>>]
  /\ hKey = [i \in References |-> NoKey]

(***************************************************************************)
(* switch_revision_git, one safe_run at a step                              *)
(***************************************************************************)
NoRevision == <<>>

\* revision = 'master' when it is None.
Revision(revision) == IF revision = NoRevision THEN <<"master">> ELSE revision

\* revs = [ x + revision for x in [ 'origin/', '' ]]
Revs(revision) == << <<"origin/">> \o Revision(revision), Revision(revision) >>

\* except SystemExit: continue; the else of the for exits.
SwitchContinue ==
  IF wIndex < Len(Revs(wRevision))
  THEN /\ wIndex' = wIndex + 1
       /\ wpc' = "rev-parse"
       /\ UNCHANGED wResult
  ELSE /\ wpc' = "done"
       /\ wResult' = "No such revision"
       /\ UNCHANGED wIndex

\* safe_run(['git', 'rev-parse', '--verify', '--quiet', rev])
SwitchRevParse ==
  /\ wpc = "rev-parse"
  /\ IF Revs(wRevision)[wIndex] \in wRefs
     THEN /\ wpc' = "reset"
          /\ UNCHANGED <<wIndex, wResult>>
     ELSE SwitchContinue
  /\ UNCHANGED <<wRevision, wRefs, wTree, wResets, wSubmodules>>
  /\ UNCHANGED <<mainVars, prepVars, slotVars, hashVars, pipeVars>>

\* safe_run(['git', 'reset', '--hard', rev]) and break; or the command
\* returns non-zero, safe_run exits and the except continues the loop.
SwitchReset ==
  /\ wpc = "reset"
  /\ \/ /\ wTree' = Revs(wRevision)[wIndex]
        /\ wResets' = Append(wResets, Revs(wRevision)[wIndex])
        /\ wpc' = "submodule"
        /\ UNCHANGED <<wIndex, wResult>>
     \/ /\ SwitchContinue
        /\ UNCHANGED <<wTree, wResets>>
  /\ UNCHANGED <<wRevision, wRefs, wSubmodules>>
  /\ UNCHANGED <<mainVars, prepVars, slotVars, hashVars, pipeVars>>

\* safe_run(['git', 'submodule', 'update', '--recursive'])
SwitchSubmodule ==
  /\ wpc = "submodule"
  /\ wpc' = "done"
  /\ \/ /\ wSubmodules' = TRUE
        /\ wResult' = "switched"
     \/ /\ wResult' = "Command failed; aborting!"
        /\ UNCHANGED wSubmodules
  /\ UNCHANGED <<wRevision, wRefs, wTree, wResets, wIndex>>
  /\ UNCHANGED <<mainVars, prepVars, slotVars, hashVars, pipeVars>>

\* Values of --revision.
SwitchRevisions == {NoRevision, <<"master">>, <<"r">>}

\* The names rev-parse may be asked for.
RefNames == UNION {{Revs(v)[1], Revs(v)[2]} : v \in SwitchRevisions}

InitSwitch ==
  /\ wRevision \in SwitchRevisions
  /\ wRefs \in SUBSET RefNames
  /\ wTree = <<"HEAD">>
  /\ wResets = <<>>
  /\ wSubmodules = FALSE
  /\ wIndex = 1
  /\ wpc = "rev-parse"
  /\ wResult = ""

\* No call of switch_revision_git going on.
NoSwitch ==
  /\ wRevision = NoRevision
  /\ wRefs = {}
  /\ wTree = <<"HEAD">>
  /\ wResets = <<>>
  /\ wSubmodules = FALSE
  /\ wIndex = 1
  /\ wpc = "done"
  /\ wResult = ""

(***************************************************************************)
(* safe_run: the child writes stdout and stderr to one pipe, the parent     *)
(* waits for the child and reads the pipe afterwards                        *)
(***************************************************************************)
MaxOutput == 6

MaxCapacity == 4

\* The child writes one unit to the pipe; the write blocks while the pipe
\* is full.
ChildWrite ==
  /\ kChild = "running"
  /\ kAmount > 0
  /\ kPipe < kCapacity
  /\ kPipe' = kPipe + 1
  /\ kAmount' = kAmount - 1
  /\ UNCHANGED <<kCapacity, kReturncode, kChild, kOutput, kpc>>
  /\ UNCHANGED <<mainVars, prepVars, slotVars, hashVars, switchVars>>

\* The child has written all it has and ends.
ChildExit ==
  /\ kChild = "running"
  /\ kAmount = 0
  /\ kChild' = "exited"
  /\ UNCHANGED <<kCapacity, kAmount, kReturncode, kPipe, kOutput, kpc>>
  /\ UNCHANGED <<mainVars, prepVars, slotVars, hashVars, switchVars>>

\* proc.wait() returns once the child has ended.
ProcWait ==
  /\ kpc = "wait"
  /\ kChild = "exited"
  /\ kpc' = "read"
  /\ UNCHANGED <<kCapacity, kAmount, kReturncode, kPipe, kChild, kOutput>>
  /\ UNCHANGED <<mainVars, prepVars, slotVars, hashVars, switchVars>>

\* output = proc.stdout.read().strip(), then sys.exit for a non-zero
\* returncode, else the return.
ReadAndReturn ==
  /\ kpc = "read"
  /\ kOutput' = kPipe
  /\ kPipe' = 0
  /\ kpc' = IF kReturncode # 0 THEN "Command failed; aborting!" ELSE "returned"
  /\ UNCHANGED <<kCapacity, kAmount, kReturncode, kChild>>
  /\ UNCHANGED <<mainVars, prepVars, slotVars, hashVars, switchVars>>

\* subprocess.Popen has started the child on an empty pipe.
InitPipe ==
  /\ kCapacity \in 1..MaxCapacity
  /\ kAmount \in 0..MaxOutput
  /\ kReturncode \in {0, 1}
  /\ kPipe = 0
  /\ kChild = "running"
  /\ kOutput = 0
  /\ kpc = "wait"

\* No call of safe_run going on.
NoPipe ==
  /\ kCapacity = 1
  /\ kAmount = 0
  /\ kReturncode = 0
  /\ kPipe = 0
  /\ kChild = "exited"
  /\ kOutput = 0
  /\ kpc = "returned"

\* No call of a single function and no run on a promoted slot going on.
NoUnits == NoPrep /\ NoSlot /\ NoHash /\ NoSwitch /\ NoPipe

InitCache ==
  /\ cacheEnabled \in BOOLEAN
  /\ treeKind \in TreeKinds
  /\ repoSlot = NoTree
  /\ incoming = [r \in Runs |-> NoTree]
  /\ tmp = [r \in Runs |-> NoTree]
  /\ staged = [r \in Runs |-> "none"]
  /\ pc = [r \in Runs |-> "start"]
  /\ repodir = [r \in Runs |-> "none"]
  /\ cleanup_dirs = [r \in Runs |-> <<>>]
  /\ failedAt = [r \in Runs |-> "none"]
  /\ changes = [r \in Runs |-> "None"]
  /\ completed = [r \in Runs |-> {}]
  /\ promotions = 0

\* No run of the pipeline going on.
NoRuns ==
  /\ cacheEnabled = FALSE
  /\ treeKind = "plain"
  /\ repoSlot = NoTree
  /\ incoming = [r \in Runs |-> NoTree]
  /\ tmp = [r \in Runs |-> NoTree]
  /\ staged = [r \in Runs |-> "none"]
  /\ pc = [r \in Runs |-> "done"]
  /\ repodir = [r \in Runs |-> "none"]
  /\ cleanup_dirs = [r \in Runs |-> <<>>]
  /\ failedAt = [r \in Runs |-> "none"]
  /\ changes = [r \in Runs |-> "None"]
  /\ completed = [r \in Runs |-> {}]
  /\ promotions = 0

NextCache ==
  \E r \in Runs :
    \/ ConstructRepodir(r)
    \/ FetchBegin(r)
    \/ FetchEnd(r)
    \/ UpdateCache(r)
    \/ SwitchRevision(r)
    \/ MainDetectVersion(r)
    \/ MainDetectChanges(r)
    \/ PrepTreeForTar(r)
    \/ MainCreateTar(r)
    \/ MainWriteChanges(r)
    \/ PopulateCheck(r)
    \/ PopulateRename(r)
    \/ AtExit(r)

(***************************************************************************)
(* Concurrent runs of the pipeline against one cache root                   *)
(***************************************************************************)
Init == InitCache /\ NoChanges /\ NoCalls /\ NoVersion /\ NoTar /\ NoUnits

Next == NextCache

Spec == Init /\ [][Next]_vars

(***************************************************************************)
(* Runs of the pipeline against one cache root, one after the other: a run  *)
(* takes a step only while no other run is between its start and its end   *)
(***************************************************************************)
Alone(r) == \A q \in Runs \ {r} : pc[q] \in {"start", "done"}

NextSequential ==
  \E r \in Runs :
    \/ Alone(r) /\ ConstructRepodir(r)
    \/ Alone(r) /\ FetchBegin(r)
    \/ Alone(r) /\ FetchEnd(r)
    \/ Alone(r) /\ UpdateCache(r)
    \/ Alone(r) /\ SwitchRevision(r)
    \/ Alone(r) /\ MainDetectVersion(r)
    \/ Alone(r) /\ MainDetectChanges(r)
    \/ Alone(r) /\ PrepTreeForTar(r)
    \/ Alone(r) /\ MainCreateTar(r)
    \/ Alone(r) /\ MainWriteChanges(r)
    \/ Alone(r) /\ PopulateCheck(r)
    \/ Alone(r) /\ PopulateRename(r)
    \/ Alone(r) /\ AtExit(r)

SpecSequential == Init /\ [][NextSequential]_vars

(***************************************************************************)
(* Successive runs with --changesgenerate on one output directory           *)
(***************************************************************************)
InitC == NoRuns /\ InitChanges /\ NoCalls /\ NoVersion /\ NoTar /\ NoUnits

SpecChanges == InitC /\ [][NextChanges]_vars

(***************************************************************************)
(* Calls of the sidecar functions on a well-formed sidecar                  *)
(***************************************************************************)
InitS == NoRuns /\ InitSidecar /\ NoVersion /\ NoTar /\ NoUnits

NextS == CallDetectChangesRevision \/ CallWriteChangesRevision

SpecSidecar == InitS /\ [][NextS]_vars

(***************************************************************************)
(* A call of detect_version                                                 *)
(***************************************************************************)
InitV == NoRuns /\ NoChanges /\ NoCalls /\ InitVersion /\ NoTar /\ NoUnits

SpecVersion == InitV /\ [][DetectVersion]_vars

(***************************************************************************)
(* A call of create_tar                                                     *)
(***************************************************************************)
InitT == NoRuns /\ NoChanges /\ NoCalls /\ NoVersion /\ InitTar /\ NoUnits

SpecTar == InitT /\ [][create_tar]_vars

(***************************************************************************)
(* A call of prep_tree_for_tar                                              *)
(***************************************************************************)
\* The state in which one part of the program is about to be called and
\* nothing else is going on.
InitUnit(part) ==
  /\ NoRuns /\ NoChanges /\ NoCalls /\ NoVersion /\ NoTar
  /\ IF part = "prep_tree_for_tar" THEN InitPrep ELSE NoPrep
  /\ IF part = "fetch_upstream" THEN InitSlot ELSE NoSlot
  /\ IF part = "get_repocache_hash" THEN InitHash ELSE NoHash
  /\ IF part = "switch_revision_git" THEN InitSwitch ELSE NoSwitch
  /\ IF part = "safe_run" THEN InitPipe ELSE NoPipe

SpecPrep == InitUnit("prep_tree_for_tar") /\ [][CallPrepTreeForTar]_vars

(***************************************************************************)
(* Concurrent runs on a promoted slot                                       *)
(***************************************************************************)
SpecShared == InitUnit("fetch_upstream") /\ [][NextSlot]_vars

(***************************************************************************)
(* Calls of get_repocache_hash for two source references                    *)
(***************************************************************************)
SpecHash ==
  InitUnit("get_repocache_hash") /\ [][\E i \in References : CallGetRepocacheHash(i)]_vars

(***************************************************************************)
(* A call of switch_revision_git                                            *)
(***************************************************************************)
SpecSwitch ==
  InitUnit("switch_revision_git") /\ [][SwitchRevParse \/ SwitchReset \/ SwitchSubmodule]_vars

(***************************************************************************)
(* A call of safe_run; parent and child each take their steps when they can *)
(***************************************************************************)
SpecPipe ==
  /\ InitUnit("safe_run")
  /\ [][ChildWrite \/ ChildExit \/ ProcWait \/ ReadAndReturn]_vars
  /\ WF_vars(ChildWrite) /\ WF_vars(ChildExit)
  /\ WF_vars(ProcWait) /\ WF_vars(ReadAndReturn)

(***************************************************************************)
(* Properties of the cache and of the cleanup at process end                *)
(***************************************************************************)

\* C1: for runs on the same cache key starting from an absent repo/<key>,
\* repo/<key> is created at most once, and whenever it exists it holds a tree
\* whose fetch and switchRevision have finished.
C1_PromotedOnceComplete ==
  /\ promotions <= 1
  /\ repoSlot # NoTree => (promotions = 1 /\ repoSlot.clone = "switched")

\* Two runs fetched the same key concurrently; one was promoted while the
\* other, with its own complete tree, stands at the promotion step.
C1_Witness ==
  \E r \in Runs :
    /\ repoSlot # NoTree /\ repoSlot.origin # r
    /\ repodir[r] = "incoming" /\ incoming[r].clone = "switched"
    /\ pc[r] \in {"populate", "rename"}

\* C2: a run that fetched into its own incoming/ directory and reached the
\* promotion step while another run populated repo/<key> ends successfully,
\* and its incoming/ tree is gone once the process has ended (stated for an
\* upstream tree without symbolic links, where removal itself cannot fail).
C2_LoserEndsCleanly ==
  \A r \in Runs :
    ( /\ treeKind = "plain"
      /\ pc[r] = "done"
      /\ repodir[r] = "incoming"
      /\ failedAt[r] \in {"none", "rename"}
      /\ repoSlot # NoTree /\ repoSlot.origin # r )
    => (failedAt[r] = "none" /\ incoming[r] = NoTree)

\* C3: repo/<key> is created by a run only after its fetch, switchRevision,
\* version detection, staging, archive creation and changelog writing have
\* succeeded; a run that failed never created repo/<key>.
C3_PromotedAfterPackaging ==
  \A r \in Runs :
    /\ (repoSlot # NoTree /\ repoSlot.origin = r) =>
         /\ {"fetch", "switch", "stage", "tar"} \subseteq completed[r]
         /\ failedAt[r] = "none"
         /\ changes[r] = "record" => "write" \in completed[r]
    /\ failedAt[r] # "none" => repoSlot.origin # r

\* One run was promoted after detecting a version and writing its changelog,
\* while another first-use run failed at archive creation.
C3_Witness ==
  \E r, q \in Runs :
    /\ repoSlot # NoTree /\ repoSlot.origin = r
    /\ {"version", "write"} \subseteq completed[r]
    /\ q # r /\ repodir[q] = "incoming" /\ failedAt[q] = "tar" /\ pc[q] = "done"

\* C4: once a run's process has ended, at whichever step, the temporary
\* working directory of a non-cached run and the staged tree no longer exist.
C4_TempAndStagedGone ==
  \A r \in Runs : pc[r] = "done" => (tmp[r] = NoTree /\ staged[r] = "none")

\* The runs that have ended without a fatal error.
Succeeded == {r \in Runs : pc[r] = "done" /\ failedAt[r] = "none"}

\* C13: with the cache enabled and the runs made one after the other, once a
\* run has succeeded repo/<key> exists and was created once, at most one
\* successful run fetched into a directory of its own (the first), every run
\* under way after a successful one works on repo/<key>, and no successful
\* run has left a tree under incoming/.
C13_SequentialRunsShareOneTree ==
  (cacheEnabled /\ Succeeded # {}) =>
    /\ repoSlot # NoTree /\ promotions = 1
    /\ Cardinality({r \in Succeeded : repodir[r] = "incoming"}) <= 1
    /\ \A q \in Runs : pc[q] \notin {"start", "done"} =>
         (repodir[q] = "repo" /\ DirOf(q).clone = "switched")
    /\ \A r \in Runs : r \in Succeeded \/ repodir[r] = "repo" => incoming[r] = NoTree

\* A second successful run, made after the first, has worked on repo/<key>.
C13_Witness ==
  /\ cacheEnabled
  /\ \E r, q \in Succeeded : repodir[r] = "incoming" /\ repodir[q] = "repo"
                              /\ "fetch" \in completed[q]

(***************************************************************************)
(* Properties of change detection                                           *)
(***************************************************************************)
Min(S) == CHOOSE x \in S : \A y \in S : x <= y

RECURSIVE OldestFirst(_)
OldestFirst(S) == IF S = {} THEN <<>> ELSE <<Min(S)>> \o OldestFirst(S \ {Min(S)})

\* HEAD~n: the n-th ancestor along first parents (0 when there is none).
RECURSIVE FirstParentAncestor(_, _)
FirstParentAncestor(c, n) ==
  IF n = 0 \/ c = 0 THEN c ELSE FirstParentAncestor(commits[c].p1, n - 1)

Subjects(order) == [i \in 1..Len(order) |-> commits[order[i]].subj]

\* A run has detected changes on a history of more than 10 commits with no
\* changesrevision stored for the URL.
FirstDetection ==
  /\ cpc = "detected"
  /\ startInfo.stored = None
  /\ Cardinality(Reach(head)) > 10

\* C5 (as claimed): with more than 10 commits and no stored changesrevision,
\* the log lines are exactly the subjects of the non-merge commits in
\* (HEAD~10, HEAD], oldest first, and the new revision is HEAD (stated for
\* histories in which every commit has a subject).
C5_SubjectsSinceHeadTilde10 ==
  (FirstDetection /\ \A c \in Reach(head) : commits[c].subj # Empty) =>
    /\ change.revision = head
    /\ change.lines =
         Subjects(OldestFirst({c \in Reach(head) \ Reach(FirstParentAncestor(head, 10)) :
                                 commits[c].p2 = 0}))

\* C5 (amended): with more than 10 commits and no stored changesrevision,
\* the log lines are the subjects of the non-merge commits reachable from
\* HEAD and not from L, oldest first, without the empty subjects at either
\* end of the list, and the new revision is HEAD; L is the commit that has
\* exactly ten newer commits in HEAD's history, which is HEAD~10 when the
\* history has no merge.
C5_SubjectsSinceEleventhNewest ==
  FirstDetection =>
    LET R == Reach(head)
        L == CHOOSE c \in R : Cardinality({d \in R : d > c}) = 10
        subj == Subjects(OldestFirst({c \in R \ Reach(L) : commits[c].p2 = 0}))
        ne == {i \in 1..Len(subj) : subj[i] # Empty}
    IN /\ change.revision = head
       /\ change.lines = IF ne = {} THEN <<Empty>> ELSE SubSeq(subj, Min(ne), Max(ne))
       /\ (\A c \in R : commits[c].p2 = 0) => L = FirstParentAncestor(head, 10)

\* A first detection on a history with a merge among the newest commits.
C5_Witness ==
  /\ FirstDetection
  /\ \E c \in Reach(head) : commits[c].p2 # 0
  /\ Len(change.lines) >= 8

\* C6: every successful run leaves HEAD stored as changesrevision for the
\* URL, and a successful run that follows a successful run with no commit in
\* between reports no changes, prepends nothing to a *.changes file, does
\* not write _servicedata and finds and leaves HEAD stored.
C6_SecondRunReportsNothing ==
  /\ cpc = "finished" =>
       /\ servicedata.kind = "doc"
       /\ \E i \in 1..Len(servicedata.services) :
            servicedata.services[i] = Service("tar_scm", url, <<head>>)
  /\ (cpc = "finished" /\ startInfo.prevOK = head) =>
       /\ change = NoChange
       /\ prepends = 0
       /\ sdWrites = 0
       /\ startInfo.stored = head

\* A second successful run on the HEAD whose first run wrote a changes block.
C6_Witness ==
  /\ cpc = "finished"
  /\ startInfo.prevOK = head
  /\ Len(changesFiles) > 0
  /\ changesFiles[1] # <<>>

(***************************************************************************)
(* Properties of the sidecar functions                                      *)
(***************************************************************************)
IsFor(svc, u) == svc.name = "tar_scm" /\ svc.url = u

\* C7: whatever calls of detect_changes_revision and write_changes_revision
\* are made for URL on a well-formed sidecar, every service entry stays at
\* its place with its name and url, an entry that is not the tar_scm entry
\* for URL keeps its content, and at most one entry is added: a tar_scm
\* entry for URL, at the end, when the document had none.
C7_UnrelatedEntriesKept ==
  LET old == initialDoc.services
      new == servicedata.services
  IN /\ servicedata.kind = "doc"
     /\ Len(new) \in {Len(old), Len(old) + 1}
     /\ \A i \in 1..Len(old) :
          /\ new[i].name = old[i].name
          /\ new[i].url = old[i].url
          /\ ~IsFor(old[i], url) => new[i] = old[i]
     /\ Len(new) = Len(old) + 1 =>
          /\ IsFor(new[Len(new)], url)
          /\ \A i \in 1..Len(old) : ~IsFor(old[i], url)

(***************************************************************************)
(* Properties of version detection                                          *)
(***************************************************************************)

\* C8: for each of the four SCM kinds and every format, the version
\* detect_version returns contains neither '-' nor ':' (stated for a backend
\* that prints a number for the placeholder).
C8_NoDashNoColon ==
  (vpc = "returned" /\ vMeta = <<"0", "0">>) => \A i \in 1..Len(vVersion) : vVersion[i] \notin {"-", ":"}

(***************************************************************************)
(* Properties of the tar assembly                                           *)
(***************************************************************************)
GlobMatches(pat, name) == re_match(fnmatch_translate(pat), name)

\* An entry that lies inside a .git, .svn, .hg or .bzr directory of the tree.
InsideVcs(name) ==
  \E i \in 1..Len(VcsNames) : \E d \in tTree :
    /\ Len(d) > Len(VcsNames[i])
    /\ SubSeq(d, Len(d) - Len(VcsNames[i]), Len(d)) = <<"/">> \o VcsNames[i]
    /\ Len(name) > Len(d)
    /\ SubSeq(name, 1, Len(d) + 1) = d \o <<"/">>

\* C9: with include patterns, the archive holds exactly the entries of the
\* staged tree whose full path matches at least one include pattern,
\* whatever the exclude list is.
C9_ArchiveIsIncludeMatches ==
  (tpc = "done" /\ tInclude # <<>>) =>
    tArchive = {e \in tTree : \E i \in 1..Len(tInclude) : GlobMatches(tInclude[i], e)}

\* C10: whatever the include and exclude patterns, no entry lying inside a
\* .git, .svn, .hg or .bzr directory of the staged tree is in the archive.
C10_NoVcsEntries ==
  tpc = "done" => \A e \in tArchive : ~InsideVcs(e)

\* C16: once repo/<key> exists no run writes into it: no step of any run
\* changes what is found under it.
C16_PromotedSlotNeverWritten == [][slot' = slot]_vars

\* C17: for runs working at once on the promoted repo/<key> with revisions
\* of their own, the version a run detects and the tree it stages are those
\* of the revision the run itself switched to.
C17_OwnRevisionPackaged ==
  \A r \in Sharers :
    /\ sVersion[r] # 0 => sVersion[r] = sRevision[r]
    /\ sStaged[r] # 0 => sStaged[r] = sRevision[r]

InResets(rev) == \E k \in 1..Len(wResets) : wResets[k] = rev

\* C19: switch_revision_git resets the tree to origin/R when origin/R
\* verifies, otherwise to R when R verifies, and then updates the
\* submodules; when neither verifies it ends with 'No such revision' and
\* no reset; it never resets to R when origin/R verifies.
C19_ResetToFirstVerified ==
  LET origin == Revs(wRevision)[1]
      local == Revs(wRevision)[2]
  IN /\ origin \in wRefs => ~InResets(local)
     /\ wResult = "switched" =>
          /\ wSubmodules
          /\ wTree = (IF origin \in wRefs THEN origin ELSE local)
     /\ (wpc = "done" /\ wResult # "" /\ origin \notin wRefs /\ local \notin wRefs) =>
          /\ wResult = "No such revision"
          /\ wResets = <<>>

\* C21: safe_run returns, or ends with the failure for a non-zero exit,
\* whatever the amount of output the child writes: parent and child never
\* block on each other forever.
C21_SafeRunEnds == <>(kpc \in {"returned", "Command failed; aborting!"})

\* C20: with sha256 injective, two svn source references get the same key
\* only if url and subdirectory are the same, and two non-svn source
\* references get the same key exactly when their urls are equal.
C20_KeysSeparateReferences ==
  \A i, j \in References :
    (hKey[i] # NoKey /\ hKey[j] # NoKey) =>
      /\ (hScm[i] = "svn" /\ hScm[j] = "svn" /\ hKey[i] = hKey[j])
           => (hUrl[i] = hUrl[j] /\ hSubdir[i] = hSubdir[j])
      /\ (hScm[i] # "svn" /\ hScm[j] # "svn")
           => ((hKey[i] = hKey[j]) <=> (hUrl[i] = hUrl[j]))

\* C15: every member of the archive is written with uid 0, gid 0, uname
\* "root" and gname "root", whoever owns the staged files, with include
\* patterns and without.
C15_MembersOwnedByRoot ==
  tpc = "done" => \A n \in DOMAIN tInfo : tInfo[n] = RootOwner

\* An archive of several members made with include patterns from files that
\* do not belong to root.
C15_Witness ==
  /\ tpc = "done"
  /\ tInclude # <<>>
  /\ Cardinality(tArchive) >= 2
  /\ DOMAIN tInfo = tArchive
  /\ \A n \in tArchive : tStat[n].uid # 0 /\ tStat[n].gname # "root"

\* C12: for svn, hg and bzr, detect_changes yields None instead of failing,
\* so the run goes on to packaging and writes no changelog entry.
C12_NoBackendYieldsNone ==
  cScm # "git" =>
    /\ cpc # "KeyError"
    /\ cpc \in {"detected", "finished"} => (change = NoChange /\ prepends = 0)

\* C14: in every run, whatever the sidecar was at its start, _servicedata is
\* written at most once.
C14_SidecarWrittenOnce == sdWrites <= 1

\* C18: in a run whose detect_changes_revision accepted the sidecar,
\* write_changes_revision finds a tar_scm entry for the URL: the run never
\* ends with the 'missing tar_scm with URL' exit.
C18_EntryFoundAtWrite == cpc # "missing tar_scm with URL"

(***************************************************************************)
(* Properties of staging                                                    *)
(***************************************************************************)
PrepSrc == Resolve(Join(pRepodir, pSubdir))

PrepDst == Resolve(Join(pOutdir, pDstname))

\* C11: prep_tree_for_tar ends with the not-found error when repodir/subdir
\* does not exist, and with the same-file error when the destination exists
\* and is the source directory or the directory the source lies in; in both
\* cases nothing is copied, and after a copy everything that was in the
\* source is still there.
C11_StagingErrors ==
  pResult # "call" =>
    /\ PrepSrc \notin pBefore => pResult = "No such file or directory"
    /\ ( /\ PrepSrc \in pBefore
         /\ PrepDst \in pBefore
         /\ PrepDst \in {PrepSrc, Dirname(PrepSrc)} )
       => pResult = "src and dst refer to same file"
    /\ pResult \in {"No such file or directory", "src and dst refer to same file"}
       => pFs = pBefore
    /\ pResult = "copied" => pBefore \subseteq pFs

====
